---- MODULE Spec2Model ----
(***************************************************************************)
(* Model of the SpiNNaker Nengo components: the filter component           *)
(* (filter/filter_main.c), the boot sequence of the ensemble component     *)
(* (c_main of the ensemble) and the packed neuron word of                  *)
(* ensemble/spin-nengo-ensemble.h.                                         *)
(*                                                                         *)
(* Representation.  A C `uint` whose bit pattern matters (keys, payloads,  *)
(* the delay counter, the packed neuron word) is a 32-bit word <<hi, lo>>  *)
(* of two 16-bit halves.  A uint that is only used as a small count or     *)
(* index (sizes, periods, tick numbers) is the natural number itself.  An  *)
(* `accum` (s16.15) is the signed integer of its bit pattern: 1.0 is       *)
(* 32768.  C arrays are functions over 0..n-1.                             *)
(***************************************************************************)
EXTENDS Integers, Sequences, FiniteSets, TLC

(* ------------------------------ bounds -------------------------------- *)
MaxSizeIn == 2
MaxSizeOut == 2
MaxDelay == 2
MaxSimTicks == 2
MaxTicks == 4
MaxPackets == 1
NumEnsembleCores == 1
NumNeurons == 2

(* --------------------------- 32-bit words ----------------------------- *)
U32(n) == <<n \div 65536, n % 65536>>

RECURSIVE BitAnd(_, _)
BitAnd(a, b) ==
  IF a = 0 \/ b = 0 THEN 0
  ELSE (a % 2) * (b % 2) + 2 * BitAnd(a \div 2, b \div 2)

And32(x, y) == <<BitAnd(x[1], y[1]), BitAnd(x[2], y[2])>>

Or32(x, y) ==
  <<x[1] + y[1] - BitAnd(x[1], y[1]), x[2] + y[2] - BitAnd(x[2], y[2])>>

\* faulty variant: x - y stopping at zero
Sub32_saturating(x, y) ==
  IF x[1] > y[1] \/ (x[1] = y[1] /\ x[2] >= y[2])
    THEN LET lo == x[2] - y[2]
             borrow == IF lo < 0 THEN 1 ELSE 0
         IN  <<x[1] - y[1] - borrow, lo % 65536>>
    ELSE <<0, 0>>

\* x - y modulo 2^32
Sub32(x, y) ==
  LET lo == x[2] - y[2]
      borrow == IF lo < 0 THEN 1 ELSE 0
  IN  <<(x[1] - y[1] - borrow) % 65536, lo % 65536>>

\* x >> 28
Shr28(x) == x[1] \div 4096

\* unsigned x >= y
UGe(x, y) == x[1] > y[1] \/ (x[1] = y[1] /\ x[2] >= y[2])

UINT32_MAX == <<65535, 65535>>

(* --------------------- s16.15 fixed point (accum) --------------------- *)
\* bitsk: the bit pattern of an accum as a uint
bitsk(v) == <<(v \div 65536) % 65536, v % 65536>>

\* kbits: the accum whose bit pattern is the uint
kbits(w) ==
  IF w[1] >= 32768 THEN (w[1] - 65536) * 65536 + w[2]
  ELSE w[1] * 65536 + w[2]

\* accum + accum, wrapping modulo 2^32
AddK(a, b) ==
  IF a >= 0 /\ b >= 0 /\ a > 2147483647 - b
    THEN (a - 2147483647 - 1) + (b - 2147483647 - 1)
  ELSE IF a < 0 /\ b < 0 /\ a < (-2147483647 - 1) - b
    THEN (a + 2147483647 + 1) + (b + 2147483647 + 1)
  ELSE a + b

\* accum * accum: the 64-bit product shifted right by the 15 fraction bits,
\* computed on 15-bit limbs; exact for the magnitudes the model draws
\* (below 2^20), where the result cannot leave 32 bits.
MulK(a, b) ==
  LET ah == a \div 32768
      al == a % 32768
      bh == b \div 32768
      bl == b % 32768
  IN  ah * bh * 32768 + ah * bl + al * bh + ((al * bl) \div 32768)

(* ------------------------------ state --------------------------------- *)
VARIABLES
  \* configuration written by the loader before boot
  sdram,              \* the filter core's regions 1..5
  simulation_ticks,   \* configured total tick count (word)
  lead,               \* the chip's lead application core
  \* filter component (core FilterCore)
  cpc,                \* position of c_main
  g_filter,           \* filter_parameters_t g_filter
  delay_remaining,    \* uint delay_remaining (word)
  g_input,            \* input_filter_t g_input
  attempted,          \* regions whose load step c_main has called, in order
  io_buf,             \* lines written to IO_BUF by c_main
  timer_tick,         \* period given to spin1_set_timer_tick, 0 if unset
  callbacks,          \* events registered with spin1_callback_on
  run,                \* spin1 kernel: "init", "running", "exited"
  upc,                \* position of filter_update
  ticks,              \* tick count handed to the timer callback
  fidx,               \* input_filter_step: index of the filter being stepped
  tmp,                \* input_filter_step: accumulator value read
  tx,                 \* calls made to the kernel by the current filter_update
  \* observation of the filter component (history only)
  npackets,           \* packets received so far
  folded,             \* per filter: what the accumulator holds if no payload is lost
  load_failed,        \* region whose load step reported failure, 0 if none
  exit_tick,          \* tick whose callback called spin1_exit, 0 if none
  n_steps,            \* completed calls of input_filter_step
  n_updates,          \* completed runs of filter_update
  \* shared by the chip
  configured,         \* cores that called system_lead_app_configured, in order
  \* ensemble components (cores EnsembleCores)
  epc,                \* per core: position of c_main: "load", "lead", "start",
                      \* "spin1_start", "returned"
  e_attempted,        \* per core: regions whose load step was called, in order
  e_failed,           \* per core: first region whose load reported failure, 0 if none
  e_io_buf,           \* per core: failure lines written to IO_BUF
  e_timer_tick,       \* per core: TRUE once spin1_set_timer_tick was called
  \* packed neuron words of one ensemble
  t_ref,              \* uint t_ref (word)
  v_ref_voltage,      \* uint v_ref_voltage[n] (words)
  refractory_watch    \* history: the neuron last put into the refractory state
                      \* and the decrements applied to it since

filter_vars == <<cpc, g_filter, delay_remaining, g_input, attempted, io_buf,
                 timer_tick, callbacks, run, upc, ticks, fidx, tmp, tx,
                 npackets, folded, load_failed, exit_tick, n_steps, n_updates>>
config_vars == <<sdram, simulation_ticks, lead>>
ensemble_vars == <<epc, e_attempted, e_failed, e_io_buf, e_timer_tick>>
neuron_vars == <<t_ref, v_ref_voltage, refractory_watch>>
vars == <<config_vars, filter_vars, configured, ensemble_vars, neuron_vars>>

FilterCore == 0
EnsembleCores == 1..NumEnsembleCores
Neurons == 0..(NumNeurons - 1)

(* ----------------------- loader-written regions ----------------------- *)
\* coefficients the transform region is filled from: 1.0, -1.0, 0.5, 0.25
Coefficient(i) ==
  CASE i % 4 = 0 -> 32768
    [] i % 4 = 1 -> -32768
    [] i % 4 = 2 -> 16384
    [] OTHER     -> 8192

\* routing key of output dimension d
OutputKey(d) == <<4096 + 3 * d, 65535 - d>>

\* key and mask of the input route of dimension i
RouteKey(i) == <<1, 16 * i>>
RouteMask == <<65535, 65520>>

\* the five regions of a filter with the given system words
Regions(size_in, size_out, delay) ==
  [ r1 |-> [size_in |-> size_in, size_out |-> size_out, machine_timestep |-> 1000,
            transmission_delay |-> U32(delay), interpacket_pause |-> 1],
    r2 |-> [d \in 0..(size_out - 1) |-> OutputKey(d)],
    r3 |-> [f \in 0..(size_in - 1) |-> [decay |-> 16384, slot |-> f]],
    r4 |-> [r \in 0..(size_in - 1) |->
              [key |-> RouteKey(r), mask |-> RouteMask, filter |-> r]],
    r5 |-> [i \in 0..(size_out * size_in - 1) |-> bitsk(Coefficient(i))] ]

\* packets the fabric may deliver: a key of route 0, a key of route 1 with
\* low bits set, a key no route matches; payloads 1.0 and -1.5
PacketKeys == {<<1, 3>>, <<1, 17>>, <<2, 0>>}
PacketPayloads == {bitsk(32768), bitsk(-49152)}

(* ------------------------- filter: load phase ------------------------- *)
update_vars == <<upc, ticks, fidx, tmp, tx, npackets, exit_tick, n_steps, n_updates>>
other_vars == <<config_vars, ensemble_vars, neuron_vars>>

\* input_filter_initialise: allocates the filtered vector of the given
\* width; leaves it absent (NULL) when the heap cannot supply it
input_filter_initialise(inp, width, ok) ==
  IF ok THEN [inp EXCEPT !.input = [k \in 0..(width - 1) |-> 0]] ELSE inp

\* input_filter_get_filters: parses the filter table into per-filter
\* decaying accumulators
input_filter_get_filters(inp, region, ok) ==
  IF ok
    THEN [inp EXCEPT !.filters =
            [f \in DOMAIN region |->
               [decay |-> region[f].decay, slot |-> region[f].slot, acc |-> 0]]]
    ELSE inp

\* input_filter_get_filter_routes: parses the (key, mask) -> filter table
input_filter_get_filter_routes(inp, region, ok) ==
  IF ok THEN [inp EXCEPT !.routes = region] ELSE inp

\* faulty variant: the delay counter is not set from the transmission delay
data_system_counter_unset(ok) ==
  /\ g_filter' = [g_filter EXCEPT
                    !.size_in = sdram.r1.size_in,
                    !.size_out = sdram.r1.size_out,
                    !.machine_timestep = sdram.r1.machine_timestep,
                    !.transmission_delay = sdram.r1.transmission_delay,
                    !.interpacket_pause = sdram.r1.interpacket_pause]
  /\ UNCHANGED delay_remaining
  /\ g_input' = input_filter_initialise(g_input, sdram.r1.size_in, ok)

\* data_system: the five system words, the delay counter, the input vector
data_system(ok) ==
  /\ g_filter' = [g_filter EXCEPT
                    !.size_in = sdram.r1.size_in,
                    !.size_out = sdram.r1.size_out,
                    !.machine_timestep = sdram.r1.machine_timestep,
                    !.transmission_delay = sdram.r1.transmission_delay,
                    !.interpacket_pause = sdram.r1.interpacket_pause]
  /\ delay_remaining' = sdram.r1.transmission_delay
  /\ g_input' = input_filter_initialise(g_input, sdram.r1.size_in, ok)

\* data_get_output_keys: size_out keys copied from the region
data_get_output_keys(ok) ==
  /\ g_filter' = IF ok
                   THEN [g_filter EXCEPT !.keys =
                           [i \in 0..(g_filter.size_out - 1) |-> sdram.r2[i]]]
                   ELSE g_filter
  /\ UNCHANGED <<delay_remaining, g_input>>

\* data_get_transform: size_in * size_out words copied into the value_t array
data_get_transform(ok) ==
  /\ g_filter' = IF ok
                   THEN [g_filter EXCEPT !.transform =
                           [i \in 0..(g_filter.size_in * g_filter.size_out - 1) |->
                              kbits(sdram.r5[i])]]
                   ELSE g_filter
  /\ UNCHANGED <<delay_remaining, g_input>>

\* c_main, the outcome of one operand of the || chain: a failed load takes
\* the failure branch (message, return), a successful one goes on
\* faulty variant: the result of the load is not tested
LoadResult_ignored(ok, next) ==
  /\ cpc' = next
  /\ UNCHANGED io_buf

LoadResult(ok, next) ==
  IF ok
    THEN /\ cpc' = next
         /\ UNCHANGED io_buf
    ELSE /\ cpc' = "returned"
         /\ io_buf' = Append(io_buf, "[Filter] Failed to initialise.")

c_main_data_system ==
  /\ cpc = "data_system"
  /\ attempted' = Append(attempted, 1)
  /\ \E ok \in BOOLEAN :
       /\ data_system(ok)
       /\ load_failed' = IF ok \/ load_failed # 0 THEN load_failed ELSE 1
       /\ LoadResult(ok, "data_get_output_keys")
  /\ folded' = folded
  /\ UNCHANGED <<timer_tick, callbacks, run, configured, update_vars, other_vars>>

c_main_data_get_output_keys ==
  /\ cpc = "data_get_output_keys"
  /\ attempted' = Append(attempted, 2)
  /\ \E ok \in BOOLEAN :
       /\ data_get_output_keys(ok)
       /\ load_failed' = IF ok \/ load_failed # 0 THEN load_failed ELSE 2
       /\ LoadResult(ok, "input_filter_get_filters")
  /\ folded' = folded
  /\ UNCHANGED <<timer_tick, callbacks, run, configured, update_vars, other_vars>>

c_main_input_filter_get_filters ==
  /\ cpc = "input_filter_get_filters"
  /\ attempted' = Append(attempted, 3)
  /\ \E ok \in BOOLEAN :
       /\ g_input' = input_filter_get_filters(g_input, sdram.r3, ok)
       /\ folded' = [f \in DOMAIN g_input'.filters |-> 0]
       /\ load_failed' = IF ok \/ load_failed # 0 THEN load_failed ELSE 3
       /\ LoadResult(ok, "input_filter_get_filter_routes")
  /\ UNCHANGED <<g_filter, delay_remaining>>
  /\ UNCHANGED <<timer_tick, callbacks, run, configured, update_vars, other_vars>>

c_main_input_filter_get_filter_routes ==
  /\ cpc = "input_filter_get_filter_routes"
  /\ attempted' = Append(attempted, 4)
  /\ \E ok \in BOOLEAN :
       /\ g_input' = input_filter_get_filter_routes(g_input, sdram.r4, ok)
       /\ load_failed' = IF ok \/ load_failed # 0 THEN load_failed ELSE 4
       /\ LoadResult(ok, "data_get_transform")
  /\ UNCHANGED <<g_filter, delay_remaining, folded>>
  /\ UNCHANGED <<timer_tick, callbacks, run, configured, update_vars, other_vars>>

c_main_data_get_transform ==
  /\ cpc = "data_get_transform"
  /\ attempted' = Append(attempted, 5)
  /\ \E ok \in BOOLEAN :
       /\ data_get_transform(ok)
       /\ load_failed' = IF ok \/ load_failed # 0 THEN load_failed ELSE 5
       /\ LoadResult(ok, "lead")
  /\ folded' = folded
  /\ UNCHANGED <<timer_tick, callbacks, run, configured, update_vars, other_vars>>

\* leadAp: this core is the chip's lead application core
leadAp(core) == core = lead

\* system_lead_app_configured: the caller commits the chip's routing tables
system_lead_app_configured(core) == configured' = Append(configured, core)

\* c_main: if (leadAp) system_lead_app_configured();
c_main_lead ==
  /\ cpc = "lead"
  /\ IF leadAp(FilterCore)
       THEN system_lead_app_configured(FilterCore)
       ELSE UNCHANGED configured
  /\ cpc' = "start"
  /\ UNCHANGED <<g_filter, delay_remaining, g_input, folded, attempted, io_buf,
                 load_failed, timer_tick, callbacks, run, update_vars, other_vars>>

\* c_main: timer period, the two callbacks, spin1_start(SYNC_WAIT)
c_main_start ==
  /\ cpc = "start"
  /\ timer_tick' = g_filter.machine_timestep
  /\ callbacks' = {[event |-> "MCPL_PACKET_RECEIVED", callback |-> "mcpl_callback",
                    priority |-> -1],
                   [event |-> "TIMER_TICK", callback |-> "filter_update",
                    priority |-> 2]}
  /\ run' = "running"
  /\ cpc' = "spin1_start"
  /\ UNCHANGED <<g_filter, delay_remaining, g_input, folded, attempted, io_buf,
                 load_failed, configured, update_vars, other_vars>>

(* ------------------------ filter: packet arrival ---------------------- *)
load_vars == <<cpc, attempted, io_buf, load_failed, timer_tick, callbacks, configured>>

\* the routes whose key equals the masked key of the packet
MatchingRoutes(inp, key) ==
  {r \in DOMAIN inp.routes : And32(key, inp.routes[r].mask) = inp.routes[r].key}

\* the filter a packet with this key is accumulated into, -1 if none
RouteFilter(inp, key) ==
  LET m == MatchingRoutes(inp, key)
  IN  IF m = {} THEN -1
      ELSE inp.routes[CHOOSE r \in m : \A q \in m : r <= q].filter

\* input_filter_mcpl_rx: adds the payload to the accumulator of the filter
\* the key routes to; a packet no route matches is dropped
input_filter_mcpl_rx(inp, key, payload) ==
  LET f == RouteFilter(inp, key)
  IN  IF f = -1 THEN inp
      ELSE [inp EXCEPT !.filters[f].acc = AddK(@, kbits(payload))]

\* faulty variant: the handler also restarts the transmission countdown
mcpl_callback_restarts_countdown(key, payload) ==
  /\ run = "running"
  /\ \E cb \in callbacks : cb.event = "MCPL_PACKET_RECEIVED"
  /\ npackets < MaxPackets
  /\ g_input' = input_filter_mcpl_rx(g_input, key, payload)
  /\ folded' = LET f == RouteFilter(g_input, key)
               IN  IF f = -1 THEN folded
                   ELSE [folded EXCEPT ![f] = AddK(@, kbits(payload))]
  /\ npackets' = npackets + 1
  /\ delay_remaining' = g_filter.transmission_delay
  /\ UNCHANGED <<g_filter, run, upc, ticks, fidx, tmp, tx,
                 exit_tick, n_steps, n_updates, load_vars, other_vars>>

\* mcpl_callback, priority -1: runs as soon as the packet arrives and
\* preempts filter_update wherever it is
mcpl_callback(key, payload) ==
  /\ run = "running"
  /\ \E cb \in callbacks : cb.event = "MCPL_PACKET_RECEIVED"
  /\ npackets < MaxPackets
  /\ g_input' = input_filter_mcpl_rx(g_input, key, payload)
  /\ folded' = LET f == RouteFilter(g_input, key)
               IN  IF f = -1 THEN folded
                   ELSE [folded EXCEPT ![f] = AddK(@, kbits(payload))]
  /\ npackets' = npackets + 1
  /\ UNCHANGED <<g_filter, delay_remaining, run, upc, ticks, fidx, tmp, tx,
                 exit_tick, n_steps, n_updates, load_vars, other_vars>>

PacketArrival ==
  \E key \in PacketKeys, payload \in PacketPayloads : mcpl_callback(key, payload)

(* ------------------------- filter: timer tick ------------------------- *)
\* the test of filter_update's first statement
\* faulty variant: the sentinel is not tested
ExitCondition_no_sentinel(t, sim) == UGe(t, sim)

\* faulty variant: ticks is compared with the sentinel, not with the count
ExitCondition_compares_sentinel(t, sim) == sim # UINT32_MAX /\ UGe(t, UINT32_MAX)

\* faulty variant: ticks > simulation_ticks
ExitCondition_strictly_greater(t, sim) == sim # UINT32_MAX /\ UGe(t, sim) /\ t # sim

ExitCondition(t, sim) == sim # UINT32_MAX /\ UGe(t, sim)

\* filter_update, entry: the kernel hands over the tick count; spin1_exit
\* clears the kernel's run flag and returns to the callback
filter_update_enter ==
  /\ run = "running"
  /\ \E cb \in callbacks : cb.event = "TIMER_TICK"
  /\ upc = "idle"
  /\ ticks < MaxTicks
  /\ ticks' = ticks + 1
  /\ IF ExitCondition(U32(ticks'), simulation_ticks)
       THEN run' = "exited" /\ exit_tick' = ticks'
       ELSE UNCHANGED <<run, exit_tick>>
  /\ tx' = <<>>
  /\ fidx' = 0
  /\ upc' = "step_read"
  /\ UNCHANGED <<g_filter, delay_remaining, g_input, folded, tmp, npackets,
                 n_steps, n_updates, load_vars, other_vars>>

\* input_filter_step(&g_input, true), filter fidx: the accumulator is read
input_filter_step_read ==
  /\ upc = "step_read"
  /\ fidx \in DOMAIN g_input.filters
  /\ tmp' = g_input.filters[fidx].acc
  /\ folded' = [folded EXCEPT ![fidx] = MulK(@, g_input.filters[fidx].decay)]
  /\ upc' = "step_write"
  /\ UNCHANGED <<g_filter, delay_remaining, g_input, run, ticks, fidx, tx, npackets,
                 exit_tick, n_steps, n_updates, load_vars, other_vars>>

\* input_filter_step(&g_input, true), filter fidx: the decayed value is
\* written back to the accumulator and to the filter's slot of the vector
input_filter_step_write ==
  /\ upc = "step_write"
  /\ LET f == g_input.filters[fidx]
         v == MulK(tmp, f.decay)
     IN  g_input' = [g_input EXCEPT !.filters[fidx].acc = v, !.input[f.slot] = v]
  /\ fidx' = fidx + 1
  /\ IF fidx + 1 \in DOMAIN g_input.filters
       THEN upc' = "step_read" /\ UNCHANGED n_steps
       ELSE upc' = "transform" /\ n_steps' = n_steps + 1
  /\ UNCHANGED <<g_filter, delay_remaining, folded, run, ticks, tmp, tx, npackets,
                 exit_tick, n_updates, load_vars, other_vars>>

\* the inner loop over k of the transform, from column k with the sum so far
RECURSIVE TransformRow(_, _, _)
TransformRow(j, k, sum) ==
  IF k >= g_filter.size_in THEN sum
  ELSE TransformRow(j, k + 1,
         AddK(sum, MulK(g_filter.transform[j * g_filter.size_in + k],
                        g_input.input[k])))

\* faulty variant: output[j] is not cleared before the inner loop
TransformOutput_no_reset(j) == TransformRow(j, 0, g_filter.output[j])

\* output[j] = 0; then the inner loop
TransformOutput(j) == TransformRow(j, 0, 0)

\* faulty variant: the row sums are stored into transform, not into output
filter_update_transform_into_transform ==
  /\ upc = "transform"
  /\ g_filter' = [g_filter EXCEPT !.transform =
                    [i \in DOMAIN @ |->
                       IF i < g_filter.size_out THEN TransformOutput(i) ELSE @[i]]]
  /\ upc' = "transmit"
  /\ UNCHANGED <<delay_remaining, g_input, folded, run, ticks, fidx, tmp, tx,
                 npackets, exit_tick, n_steps, n_updates, load_vars, other_vars>>

\* filter_update, the transform: g_filter.input is g_input's vector
filter_update_transform ==
  /\ upc = "transform"
  /\ g_filter' = [g_filter EXCEPT !.output =
                    [j \in DOMAIN @ |->
                       IF j < g_filter.size_out THEN TransformOutput(j) ELSE @[j]]]
  /\ upc' = "transmit"
  /\ UNCHANGED <<delay_remaining, g_input, folded, run, ticks, fidx, tmp, tx,
                 npackets, exit_tick, n_steps, n_updates, load_vars, other_vars>>

\* the calls filter_update makes to the kernel when it transmits
SendCall(key, payload) == [call |-> "spin1_send_mc_packet", a |-> key, b |-> payload]
DelayCall(us) == [call |-> "spin1_delay_us", a |-> U32(us), b |-> U32(0)]

\* faulty variant: every packet is sent with keys[0]
RECURSIVE Transmit_first_key_only(_, _)
Transmit_first_key_only(d, calls) ==
  IF d >= g_filter.size_out THEN calls
  ELSE Transmit_first_key_only(d + 1,
         calls \o <<SendCall(g_filter.keys[0], bitsk(g_filter.output[d])),
                    DelayCall(g_filter.interpacket_pause)>>)

\* the transmit loop from dimension d, appended to the calls made so far
RECURSIVE Transmit(_, _)
Transmit(d, calls) ==
  IF d >= g_filter.size_out THEN calls
  ELSE Transmit(d + 1,
         calls \o <<SendCall(g_filter.keys[d], bitsk(g_filter.output[d])),
                    DelayCall(g_filter.interpacket_pause)>>)

\* faulty variant: the counter is tested before it is decremented
DelayCountdown_tests_before_decrement(remaining) ==
  IF remaining = U32(0)
    THEN [remaining |-> g_filter.transmission_delay, transmit |-> TRUE]
    ELSE [remaining |-> Sub32(remaining, U32(1)), transmit |-> FALSE]

\* delay_remaining--; if (delay_remaining == 0) delay_remaining = delay
DelayCountdown(remaining) ==
  LET dec == Sub32(remaining, U32(1))
  IN  IF dec = U32(0)
        THEN [remaining |-> g_filter.transmission_delay, transmit |-> TRUE]
        ELSE [remaining |-> dec, transmit |-> FALSE]

\* filter_update, the countdown and, when it reaches zero, the transmit loop
filter_update_transmit ==
  /\ upc = "transmit"
  /\ LET c == DelayCountdown(delay_remaining)
     IN  /\ delay_remaining' = c.remaining
         /\ tx' = IF c.transmit THEN Transmit(0, tx) ELSE tx
  /\ n_updates' = n_updates + 1
  /\ upc' = "idle"
  /\ UNCHANGED <<g_filter, g_input, folded, run, ticks, fidx, tmp, npackets,
                 exit_tick, n_steps, load_vars, other_vars>>

(* --------------------------- initial states --------------------------- *)
AppCores == {FilterCore} \cup EnsembleCores

SimulationTickChoices == {U32(t) : t \in 0..MaxSimTicks} \cup {UINT32_MAX}

\* the filter core when c_main is entered: globals zeroed, nothing loaded;
\* output is the storage g_filter.output designates, which no load step
\* of this file allocates or fills
FilterInit(size_in, size_out, delay, sim) ==
  /\ sdram = Regions(size_in, size_out, delay)
  /\ simulation_ticks = sim
  /\ cpc = "data_system"
  /\ g_filter = [size_in |-> 0, size_out |-> 0, machine_timestep |-> 0,
                 transmission_delay |-> U32(0), interpacket_pause |-> 0,
                 keys |-> <<>>, transform |-> <<>>,
                 output |-> [j \in 0..(MaxSizeOut - 1) |-> 0]]
  /\ delay_remaining = U32(0)
  /\ g_input = [input |-> <<>>, filters |-> <<>>, routes |-> <<>>]
  /\ attempted = <<>>
  /\ io_buf = <<>>
  /\ timer_tick = 0
  /\ callbacks = {}
  /\ run = "init"
  /\ upc = "idle"
  /\ ticks = 0
  /\ fidx = 0
  /\ tmp = 0
  /\ tx = <<>>
  /\ npackets = 0
  /\ folded = <<>>
  /\ load_failed = 0
  /\ exit_tick = 0
  /\ n_steps = 0
  /\ n_updates = 0

\* the ensemble cores when c_main is entered
EnsembleInit ==
  /\ epc = [e \in EnsembleCores |-> "load"]
  /\ e_attempted = [e \in EnsembleCores |-> <<>>]
  /\ e_failed = [e \in EnsembleCores |-> 0]
  /\ e_io_buf = [e \in EnsembleCores |-> <<>>]
  /\ e_timer_tick = [e \in EnsembleCores |-> FALSE]

\* one ensemble's neuron words at rest
NeuronRest ==
  /\ t_ref = U32(1)
  /\ v_ref_voltage = [n \in Neurons |-> U32(0)]
  /\ refractory_watch = [n |-> -1, k |-> 0]

Init ==
  /\ \E size_in \in 1..MaxSizeIn, size_out \in 1..MaxSizeOut, delay \in 0..MaxDelay,
        sim \in SimulationTickChoices :
       FilterInit(size_in, size_out, delay, sim)
  /\ lead \in AppCores
  /\ configured = <<>>
  /\ EnsembleInit
  /\ NeuronRest

Next ==
  \/ c_main_data_system
  \/ c_main_data_get_output_keys
  \/ c_main_input_filter_get_filters
  \/ c_main_input_filter_get_filter_routes
  \/ c_main_data_get_transform
  \/ c_main_lead
  \/ c_main_start
  \/ PacketArrival
  \/ filter_update_enter
  \/ input_filter_step_read
  \/ input_filter_step_write
  \/ filter_update_transform
  \/ filter_update_transmit

Spec == Init /\ [][Next]_vars

(* ----------------------- ensemble: load phase ------------------------- *)
\* the load steps of the ensemble's c_main in the order it makes them: the
\* region read, whether c_main tests the result, and the line logged when
\* a tested step fails
EnsembleSteps ==
  << [region |-> 1,  checked |-> TRUE,  message |-> "[Ensemble] Failed to start."],
     [region |-> 2,  checked |-> FALSE, message |-> ""],
     [region |-> 3,  checked |-> FALSE, message |-> ""],
     [region |-> 4,  checked |-> FALSE, message |-> ""],
     [region |-> 5,  checked |-> FALSE, message |-> ""],
     [region |-> 10, checked |-> TRUE,
      message |-> "[Ensemble] Failed to malloc inhib gains."],
     [region |-> 6,  checked |-> TRUE,  message |-> "[Ensemble] Failed to start."],
     [region |-> 7,  checked |-> TRUE,  message |-> "[Ensemble] Failed to start."],
     [region |-> 8,  checked |-> TRUE,  message |-> "[Ensemble] Failed to start."],
     [region |-> 9,  checked |-> TRUE,  message |-> "[Ensemble] Failed to start."],
     [region |-> 11, checked |-> TRUE,  message |-> "[Ensemble] Failed to start."],
     [region |-> 12, checked |-> TRUE,  message |-> "[Ensemble] Failed to start."],
     [region |-> 13, checked |-> TRUE,  message |-> "[Ensemble] Failed to start."],
     [region |-> 15, checked |-> TRUE,  message |-> "[Ensemble] Failed to start."] >>

\* c_main of the ensemble on core e: the next load step, which may fail
ensemble_c_main_load(e) ==
  /\ epc[e] = "load"
  /\ LET i == Len(e_attempted[e]) + 1
         step == EnsembleSteps[i]
     IN  /\ e_attempted' = [e_attempted EXCEPT ![e] = Append(@, step.region)]
         /\ \E ok \in BOOLEAN :
              /\ e_failed' = IF ~ok /\ e_failed[e] = 0
                               THEN [e_failed EXCEPT ![e] = step.region]
                               ELSE e_failed
              /\ IF ~ok /\ step.checked
                   THEN /\ epc' = [epc EXCEPT ![e] = "returned"]
                        /\ e_io_buf' = [e_io_buf EXCEPT ![e] = Append(@, step.message)]
                   ELSE /\ epc' = [epc EXCEPT ![e] =
                                     IF i = Len(EnsembleSteps) THEN "lead" ELSE "load"]
                        /\ UNCHANGED e_io_buf
  /\ UNCHANGED <<e_timer_tick, configured, config_vars, filter_vars, neuron_vars>>

\* c_main of the ensemble: if (leadAp) system_lead_app_configured();
ensemble_c_main_lead(e) ==
  /\ epc[e] = "lead"
  /\ IF leadAp(e) THEN system_lead_app_configured(e) ELSE UNCHANGED configured
  /\ epc' = [epc EXCEPT ![e] = "start"]
  /\ UNCHANGED <<e_attempted, e_failed, e_io_buf, e_timer_tick, config_vars,
                 filter_vars, neuron_vars>>

\* c_main of the ensemble: spin1_set_timer_tick, spin1_start(SYNC_WAIT)
ensemble_c_main_start(e) ==
  /\ epc[e] = "start"
  /\ e_timer_tick' = [e_timer_tick EXCEPT ![e] = TRUE]
  /\ epc' = [epc EXCEPT ![e] = "spin1_start"]
  /\ UNCHANGED <<e_attempted, e_failed, e_io_buf, configured, config_vars,
                 filter_vars, neuron_vars>>

EnsembleLoad == \E e \in EnsembleCores : ensemble_c_main_load(e)
EnsembleLead == \E e \in EnsembleCores : ensemble_c_main_lead(e)
EnsembleStart == \E e \in EnsembleCores : ensemble_c_main_start(e)

(* ------------- one chip: the boot of all its application cores -------- *)
InitChip ==
  /\ FilterInit(1, 1, 1, UINT32_MAX)
  /\ lead \in AppCores
  /\ configured = <<>>
  /\ EnsembleInit
  /\ NeuronRest

NextChip ==
  \/ c_main_data_system
  \/ c_main_data_get_output_keys
  \/ c_main_input_filter_get_filters
  \/ c_main_input_filter_get_filter_routes
  \/ c_main_data_get_transform
  \/ c_main_lead
  \/ c_main_start
  \/ EnsembleLoad
  \/ EnsembleLead
  \/ EnsembleStart

SpecChip == InitChip /\ [][NextChip]_vars

(* ---------------------- ensemble: packed neuron word ------------------ *)
\* neuron_voltage: kbits( v_ref_voltage[n] & 0x0fffffff )
neuron_voltage(n) == kbits(And32(v_ref_voltage[n], <<4095, 65535>>))

\* faulty variant: the word is overwritten with the masked voltage bits
set_neuron_voltage_whole_word(n, v) ==
  v_ref_voltage' = [v_ref_voltage EXCEPT ![n] = And32(bitsk(v), <<4095, 65535>>)]

\* set_neuron_voltage:
\* ( v_ref_voltage[n] & 0xf0000000 ) | ( bitsk( v ) & 0x0fffffff )
set_neuron_voltage(n, v) ==
  v_ref_voltage' = [v_ref_voltage EXCEPT ![n] =
                      Or32(And32(@, <<61440, 0>>), And32(bitsk(v), <<4095, 65535>>))]

\* neuron_refractory: ( v_ref_voltage[n] & 0xf0000000 ) >> 28
neuron_refractory(n) == Shr28(And32(v_ref_voltage[n], <<61440, 0>>))

\* set_neuron_refractory: v_ref_voltage[n] = t_ref
set_neuron_refractory(n) ==
  v_ref_voltage' = [v_ref_voltage EXCEPT ![n] = t_ref]

\* decrement_neuron_refractory: v_ref_voltage[n] -= 0x10000000
decrement_neuron_refractory(n) ==
  v_ref_voltage' = [v_ref_voltage EXCEPT ![n] = Sub32(@, <<4096, 0>>)]

\* the refractory periods the system region may configure, in steps: the
\* counter is a 4-bit field
RefractorySteps == 1..15

\* voltages written by the neuron update: 0.0, 1.0, -0.5, 8192.0 + 2^-15
Voltages == {0, 32768, -16384, 268435457}

\* contents of the freshly allocated neuron array: a cleared word, and a
\* word left with counter 2 and voltage bits 0x0010005
InitialWords == {U32(0), <<8193, 5>>}

\* the voltage of a non-refractory neuron is integrated and stored
NeuronIntegrate ==
  /\ \E n \in Neurons, v \in Voltages :
       /\ neuron_refractory(n) = 0
       /\ set_neuron_voltage(n, v)
       /\ refractory_watch' = IF refractory_watch.n = n THEN [n |-> -1, k |-> 0]
                              ELSE refractory_watch
  /\ UNCHANGED <<t_ref, config_vars, filter_vars, configured, ensemble_vars>>

\* a non-refractory neuron crosses the threshold
NeuronSpike ==
  /\ \E n \in Neurons :
       /\ neuron_refractory(n) = 0
       /\ set_neuron_refractory(n)
       /\ refractory_watch' = [n |-> n, k |-> 0]
  /\ UNCHANGED <<t_ref, config_vars, filter_vars, configured, ensemble_vars>>

\* one tick of a refractory neuron
NeuronRefractoryTick ==
  /\ \E n \in Neurons :
       /\ neuron_refractory(n) # 0
       /\ decrement_neuron_refractory(n)
       /\ refractory_watch' = IF refractory_watch.n = n
                                THEN [refractory_watch EXCEPT !.k = @ + 1]
                                ELSE refractory_watch
  /\ UNCHANGED <<t_ref, config_vars, filter_vars, configured, ensemble_vars>>

InitNeuron ==
  /\ FilterInit(1, 1, 1, UINT32_MAX)
  /\ lead = FilterCore
  /\ configured = <<>>
  /\ EnsembleInit
  /\ t_ref \in {U32(r) : r \in RefractorySteps}
  /\ v_ref_voltage \in [Neurons -> InitialWords]
  /\ refractory_watch = [n |-> -1, k |-> 0]

NextNeuron ==
  \/ NeuronIntegrate
  \/ NeuronSpike
  \/ NeuronRefractoryTick

SpecNeuron == InitNeuron /\ [][NextNeuron]_vars

(* ------------- the accessors of the packed word, applied freely ------- *)
\* set_neuron_voltage applied to any neuron, whatever its counter
WordSetVoltage ==
  /\ \E n \in Neurons, v \in Voltages : set_neuron_voltage(n, v)
  /\ UNCHANGED <<t_ref, refractory_watch, config_vars, filter_vars, configured,
                 ensemble_vars>>

\* decrement_neuron_refractory applied to any neuron whose counter is not zero
WordDecrementRefractory ==
  /\ \E n \in Neurons :
       /\ neuron_refractory(n) # 0
       /\ decrement_neuron_refractory(n)
  /\ UNCHANGED <<t_ref, refractory_watch, config_vars, filter_vars, configured,
                 ensemble_vars>>

\* the neuron array as allocated; the accessors applied here do not read t_ref
InitWord ==
  /\ FilterInit(1, 1, 1, UINT32_MAX)
  /\ lead = FilterCore
  /\ configured = <<>>
  /\ EnsembleInit
  /\ t_ref = U32(1)
  /\ v_ref_voltage \in [Neurons -> InitialWords]
  /\ refractory_watch = [n |-> -1, k |-> 0]

NextWord ==
  \/ WordSetVoltage
  \/ WordDecrementRefractory

SpecWord == InitWord /\ [][NextWord]_vars

(* ------------- the filter under a timer that keeps firing ------------- *)
\* one filter (1 x 1, delay 1) with every tick count the loader may set
InitFair ==
  /\ \E sim \in SimulationTickChoices : FilterInit(1, 1, 1, sim)
  /\ lead \in AppCores
  /\ configured = <<>>
  /\ EnsembleInit
  /\ NeuronRest

\* the kernel raises the timer event every machine_timestep while it runs,
\* and a callback that has been entered runs to its end
TimerFairness ==
  /\ WF_vars(filter_update_enter)
  /\ WF_vars(input_filter_step_read)
  /\ WF_vars(input_filter_step_write)
  /\ WF_vars(filter_update_transform)
  /\ WF_vars(filter_update_transmit)

SpecFair == InitFair /\ [][Next]_vars /\ TimerFairness

(* ====================================================================== *)
(* Properties                                                             *)
(* ====================================================================== *)
\* the natural number of a word below 2^31
ToNat(w) == w[1] * 65536 + w[2]

\* the multicast packets among the kernel calls of the current callback
PacketsSent == SelectSeq(tx, LAMBDA c : c.call = "spin1_send_mc_packet")

\* the configured transmission delay N and total tick count T
ConfiguredDelay == ToNat(sdram.r1.transmission_delay)
FiniteTickCount == simulation_ticks # UINT32_MAX

(* C1: with transmission delay N >= 1, every completed filter_update has   *)
(* sent exactly size_out multicast packets if its tick is a multiple of N  *)
(* (ticks N, 2N, 3N, ...) and no packet otherwise, whatever packets        *)
(* arrived.                                                                *)
C1_TransmitsEveryNthTick ==
  (upc = "idle" /\ n_updates >= 1 /\ ConfiguredDelay >= 1) =>
    Len(PacketsSent) =
      IF ticks % ConfiguredDelay = 0 THEN sdram.r1.size_out ELSE 0

\* the second transmission of a filter with N = 2 and two output dimensions,
\* after a packet has arrived
C1_Witness ==
  /\ upc = "idle"
  /\ ConfiguredDelay = 2
  /\ ticks = 4
  /\ npackets >= 1
  /\ sdram.r1.size_out = 2
  /\ Len(PacketsSent) = 2

\* the last tick a filter with a finite tick count T processes: T, or the
\* first tick when T = 0
LastTick == IF ToNat(simulation_ticks) = 0 THEN 1 ELSE ToNat(simulation_ticks)

(* C2 as stated: with a finite tick count T every tick up to and including *)
(* T is fully processed, and no filter step, countdown or send happens in  *)
(* or after the timer callback that detects that the count is reached: so  *)
(* once the count is detected all T ticks have been processed already, and *)
(* the numbers of steps and of updates stay below the detecting tick.      *)
C2_NoProcessingInDetectingCallback ==
  (FiniteTickCount /\ exit_tick # 0) =>
    /\ n_steps < exit_tick
    /\ n_updates < exit_tick
    /\ n_steps >= ToNat(simulation_ticks)

(* C2 as amended: with a finite tick count T the callback of tick T (of    *)
(* tick 1 when T = 0) is the one that detects the count and calls          *)
(* spin1_exit; that callback still performs its own filter step,           *)
(* transform, countdown and any due transmission, every earlier tick is    *)
(* fully processed without a halt, and no callback runs after it.          *)
C2_HaltsAfterProcessingLastTick ==
  FiniteTickCount =>
    /\ ticks <= LastTick
    /\ (run = "exited") = (exit_tick # 0)
    /\ exit_tick # 0 => (exit_tick = LastTick /\ ticks = LastTick)
    /\ (run = "running" /\ upc = "idle") => ticks < LastTick
    /\ upc = "idle" => (n_steps = ticks /\ n_updates = ticks)
    /\ upc \in {"step_read", "step_write"} => (n_steps = ticks - 1 /\ n_updates = ticks - 1)
    /\ upc \in {"transform", "transmit"} => (n_steps = ticks /\ n_updates = ticks - 1)

\* the filter has halted after tick T = 2, and the callback that called
\* spin1_exit has stepped the input filter and transmitted
C2_Witness ==
  /\ run = "exited"
  /\ upc = "idle"
  /\ ToNat(simulation_ticks) = 2
  /\ exit_tick = 2
  /\ n_steps = 2
  /\ n_updates = 2
  /\ Len(PacketsSent) >= 1

(* C3: if one of the five load steps of the filter reports failure, no     *)
(* later load step is attempted, the failure line is logged, and the core  *)
(* never finalizes the routing tables, sets the timer, registers a         *)
(* callback, enters the run loop, ticks or sends; the filter runs only     *)
(* after all five load steps succeeded.                                    *)
C3_LoadFailureAbortsBoot ==
  /\ load_failed # 0 =>
       /\ attempted = [i \in 1..load_failed |-> i]
       /\ io_buf = <<"[Filter] Failed to initialise.">>
       /\ cpc = "returned"
       /\ \A i \in DOMAIN configured : configured[i] # FilterCore
       /\ timer_tick = 0
       /\ callbacks = {}
       /\ run = "init"
       /\ ticks = 0
       /\ tx = <<>>
  /\ run # "init" =>
       /\ load_failed = 0
       /\ attempted = <<1, 2, 3, 4, 5>>
       /\ io_buf = <<>>
       /\ DOMAIN g_filter.keys = 0..(sdram.r1.size_out - 1)
       /\ DOMAIN g_filter.transform = 0..(sdram.r1.size_in * sdram.r1.size_out - 1)

\* the load of the filter table (region 3) failed on the lead core
C3_Witness ==
  /\ load_failed = 3
  /\ attempted = <<1, 2, 3>>
  /\ cpc = "returned"
  /\ leadAp(FilterCore)
  /\ Len(io_buf) = 1

\* the sum over the columns in S of the products of row j of the transform
\* with the input vector, each product cut to s16.15
RECURSIVE MatVecSum(_, _)
MatVecSum(j, S) ==
  IF S = {} THEN 0
  ELSE LET k == CHOOSE x \in S : TRUE
       IN  ((g_filter.transform[j * sdram.r1.size_in + k] * g_input.input[k]) \div 32768)
           + MatVecSum(j, S \ {k})

(* C6: after the transform of filter_update, and until the next tick, every *)
(* output[j] is the sum over k of transform[j*size_in + k] * input[k] in   *)
(* s16.15, input being the vector the input-filter step of that tick       *)
(* produced; the previous output values play no part.                      *)
C6_OutputIsTransformOfInput ==
  (upc = "transmit" \/ (upc = "idle" /\ n_updates >= 1)) =>
    \A j \in 0..(sdram.r1.size_out - 1) :
      g_filter.output[j] = MatVecSum(j, 0..(sdram.r1.size_in - 1))

\* a 2 x 2 transform applied for the second time, to a non-zero input,
\* over non-zero outputs of the tick before
C6_Witness ==
  /\ upc = "idle"
  /\ n_updates = 2
  /\ sdram.r1.size_in = 2
  /\ sdram.r1.size_out = 2
  /\ g_input.input[1] # 0
  /\ g_filter.output[0] # 0
  /\ g_filter.output[1] # 0

(* C10: a filter_update that transmits makes, for d = 0..size_out-1 in     *)
(* ascending order, one send with key keys[d] of the key region and, as    *)
(* payload, the bit pattern of output[d] of that tick, each send followed  *)
(* by the inter-packet pause.                                              *)
C10_PacketsInOrderWithKeyAndPayload ==
  (upc = "idle" /\ tx # <<>>) =>
    /\ Len(tx) = 2 * sdram.r1.size_out
    /\ \A d \in 0..(sdram.r1.size_out - 1) :
         /\ tx[2 * d + 1].call = "spin1_send_mc_packet"
         /\ tx[2 * d + 1].a = sdram.r2[d]
         /\ tx[2 * d + 1].b \in (0..65535) \X (0..65535)
         /\ kbits(tx[2 * d + 1].b) = g_filter.output[d]
         /\ tx[2 * d + 2].call = "spin1_delay_us"
         /\ ToNat(tx[2 * d + 2].a) = sdram.r1.interpacket_pause

\* two packets sent with distinct keys, carrying a negative and a non-zero
\* output value
C10_Witness ==
  /\ upc = "idle"
  /\ Len(tx) = 4
  /\ tx[1].a # tx[3].a
  /\ g_filter.output[0] < 0
  /\ g_filter.output[1] # 0
  /\ kbits(tx[1].b) = g_filter.output[0]

\* the cores whose c_main has got past its load phase
PastLoad(core) ==
  IF core = FilterCore
    THEN cpc \in {"lead", "start", "spin1_start"}
    ELSE epc[core] \in {"lead", "start", "spin1_start"}

\* the cores whose load phase is over with every load step reporting success
LoadSucceeded(core) ==
  /\ PastLoad(core)
  /\ IF core = FilterCore THEN load_failed = 0 ELSE e_failed[core] = 0

(* C4: in the ensemble, a failure of any load step aborts startup with a   *)
(* diagnostic line: the core then never gets to the lead-core              *)
(* finalization, to the timer-period setting or into the run loop.         *)
C4_EnsembleLoadFailureAbortsBoot ==
  \A e \in EnsembleCores :
    e_failed[e] # 0 =>
      /\ ~PastLoad(e)
      /\ ~e_timer_tick[e]
      /\ \A i \in DOMAIN configured : configured[i] # e
      /\ epc[e] = "returned" => Len(e_io_buf[e]) = 1

(* C5: over all interleavings of the cores' boot sequences the routing     *)
(* tables are finalized by the lead core only, at most once, and only      *)
(* when the load phase of every other application core of the chip has     *)
(* reported success.                                                       *)
C5_LeadFinalizesAfterAllCoresLoaded ==
  /\ Len(configured) <= 1
  /\ \A i \in DOMAIN configured : configured[i] = lead
  /\ configured # <<>> => \A core \in AppCores \ {lead} : LoadSucceeded(core)

(* C7: under every interleaving of packet arrivals with filter_update,     *)
(* each payload is folded into its accumulator exactly once, before the    *)
(* step that first reads it: between two timer callbacks every accumulator *)
(* holds what the steps so far made of all payloads received, none lost    *)
(* and none counted twice.                                                 *)
C7_EveryPayloadFoldedOnce ==
  (upc = "idle" /\ DOMAIN folded = DOMAIN g_input.filters) =>
    \A f \in DOMAIN g_input.filters : g_input.filters[f].acc = folded[f]

\* the configured refractory period in steps
RefractoryPeriod == ToNat(t_ref)

(* C8: a neuron put into the refractory state with t_ref = R steps         *)
(* (1 <= R <= 15) reports the counter R - k after k of the following R     *)
(* ticks: non-zero for R ticks, falling by one per tick, zero at the end.  *)
C8_RefractoryCountsDownFromTRef ==
  (refractory_watch.n # -1 /\ refractory_watch.k <= RefractoryPeriod) =>
    neuron_refractory(refractory_watch.n) = RefractoryPeriod - refractory_watch.k

(* C9: right after set_neuron_refractory(n) the voltage of neuron n reads  *)
(* zero and its refractory counter reads t_ref.                            *)
C9_SpikeResetsVoltageAndSetsCounter ==
  (refractory_watch.n # -1 /\ refractory_watch.k = 0) =>
    /\ neuron_voltage(refractory_watch.n) = 0
    /\ neuron_refractory(refractory_watch.n) = RefractoryPeriod

(* C11: a running filter configured with a finite total tick count         *)
(* eventually reaches a state in which spin1_exit has been called, given   *)
(* that the timer keeps firing; and once halted it stays halted.           *)
C11_FiniteRunEventuallyHalts ==
  /\ (run = "running" /\ FiniteTickCount) ~> (run = "exited")
  /\ [](run = "exited" => [](run = "exited"))

\* a filter with tick count 1 has halted, a packet having arrived while it ran
C11_Witness ==
  /\ run = "exited"
  /\ ToNat(simulation_ticks) = 1
  /\ npackets = 1
  /\ upc = "idle"

(* C12: once the load phase is over, in every state of the running or      *)
(* halted filter, whatever ticks and packets have happened, size_in,       *)
(* size_out, the machine timestep, the transmission delay, the             *)
(* inter-packet pause, the key table and the transform hold the values     *)
(* read from the regions at load.                                          *)
C12_ConfigurationImmutableAfterLoad ==
  run # "init" =>
    /\ g_filter.size_in = sdram.r1.size_in
    /\ g_filter.size_out = sdram.r1.size_out
    /\ g_filter.machine_timestep = sdram.r1.machine_timestep
    /\ g_filter.transmission_delay = sdram.r1.transmission_delay
    /\ g_filter.interpacket_pause = sdram.r1.interpacket_pause
    /\ g_filter.keys = [d \in 0..(sdram.r1.size_out - 1) |-> sdram.r2[d]]
    /\ g_filter.transform =
         [i \in 0..(sdram.r1.size_in * sdram.r1.size_out - 1) |-> kbits(sdram.r5[i])]

\* a 2 x 2 filter after three ticks and a packet, with a non-zero output,
\* still holding the coefficients of its transform region
C12_Witness ==
  /\ upc = "idle"
  /\ n_updates = 3
  /\ npackets = 1
  /\ sdram.r1.size_in = 2
  /\ sdram.r1.size_out = 2
  /\ g_filter.output[0] # 0
  /\ g_filter.transform = [i \in 0..3 |-> Coefficient(i)]

(* C13: a step in which a packet is received is exactly the receive        *)
(* handler of the input filter applied to the packet's key and payload: it *)
(* makes no kernel call, and leaves the delay counter, g_filter (output,   *)
(* keys, transform) and the position of filter_update as they were; hence  *)
(* between callbacks the delay counter is a function of the number of      *)
(* completed ticks alone, whatever the number of packets received.         *)
C13_PacketArrivalOnlyForwards ==
  /\ [][npackets' # npackets =>
          /\ UNCHANGED <<delay_remaining, g_filter, tx, upc, ticks, run>>
          /\ \E key \in PacketKeys, payload \in PacketPayloads :
               g_input' = input_filter_mcpl_rx(g_input, key, payload)]_vars
  /\ []((upc = "idle" /\ run # "init" /\ ConfiguredDelay >= 1) =>
          ToNat(delay_remaining) = ConfiguredDelay - (n_updates % ConfiguredDelay))

\* a packet has arrived inside the second callback of a filter with delay
\* 2, between the read and the write-back of the filter step, one tick
\* before the transmission
C13_Witness ==
  /\ npackets = 1
  /\ upc = "step_write"
  /\ ticks = 2
  /\ ConfiguredDelay = 2
  /\ delay_remaining = U32(1)
  /\ tmp = 0
  /\ g_input.filters[fidx].acc # 0

\* the ensemble's regions in ascending order: 1..13 and 15
AscendingRegions == <<1, 2, 3, 4, 5, 6, 7, 8, 9, 10, 11, 12, 13, 15>>

(* C14: on every ensemble core the regions loaded so far are a prefix of   *)
(* 1, 2, ..., 13, 15 (ascending, none twice, 14 never), region 10 is       *)
(* loaded only when regions 8 and 9 have been, and a region is loaded only *)
(* when every load before it succeeded: a failed load is the last one.     *)
C14_EnsembleLoadsInAscendingOrder ==
  \A e \in EnsembleCores :
    LET a == e_attempted[e]
        loaded == {a[i] : i \in DOMAIN a}
    IN  /\ a = SubSeq(AscendingRegions, 1, Len(a))
        /\ 10 \in loaded => {8, 9} \subseteq loaded
        /\ e_failed[e] # 0 => a[Len(a)] = e_failed[e]

(* C15: for every neuron n and every voltage v, negative ones included,    *)
(* neuron_voltage(n) read right after set_neuron_voltage(n, v) is v.       *)
C15_VoltageRoundTrip ==
  [][\A n \in Neurons, v \in Voltages :
       set_neuron_voltage(n, v) => neuron_voltage(n)' = v]_vars

\* the low 28 bits of a word
VoltageBits(w) == And32(w, <<4095, 65535>>)

(* C16: set_neuron_voltage(n, v) leaves the refractory counter of neuron n *)
(* as it was, for every v; decrement_neuron_refractory(n) on a neuron      *)
(* whose counter is not zero lowers the counter by one and leaves the low  *)
(* 28 bits as they were; neither changes the word of another neuron.       *)
C16_FieldsUpdatedIndependently ==
  [][\A n \in Neurons :
       /\ (\E v \in Voltages : set_neuron_voltage(n, v)) =>
            /\ neuron_refractory(n)' = neuron_refractory(n)
            /\ \A m \in Neurons \ {n} : v_ref_voltage'[m] = v_ref_voltage[m]
       /\ (neuron_refractory(n) # 0 /\ decrement_neuron_refractory(n)) =>
            /\ VoltageBits(v_ref_voltage'[n]) = VoltageBits(v_ref_voltage[n])
            /\ neuron_refractory(n)' = neuron_refractory(n) - 1
            /\ \A m \in Neurons \ {n} : v_ref_voltage'[m] = v_ref_voltage[m]]_vars

\* neuron 0, allocated with counter 2, has had the voltage 1.0 stored and
\* its counter decremented once; neuron 1 still holds its initial word
C16_Witness ==
  /\ v_ref_voltage[0] = <<4096, 32768>>
  /\ v_ref_voltage[1] = <<8193, 5>>

(* C17: with transmission delay N >= 1, whenever no filter_update is in    *)
(* progress (after data_system has run and after every completed           *)
(* filter_update) the delay counter satisfies 1 <= delay_remaining <= N.   *)
C17_DelayCounterWithinRange ==
  (ConfiguredDelay >= 1 /\ attempted # <<>> /\ upc = "idle") =>
    /\ delay_remaining # U32(0)
    /\ UGe(sdram.r1.transmission_delay, delay_remaining)

\* a filter with delay 2 between its second and third callback: the
\* counter has reached zero inside the second one and is back at 2
C17_Witness ==
  /\ upc = "idle"
  /\ ConfiguredDelay = 2
  /\ n_updates = 2
  /\ delay_remaining = U32(2)
  /\ tx # <<>>

\* values of the tick argument: those the run reaches, and values up to
\* the largest uint
TickWords ==
  {U32(t) : t \in 0..MaxTicks} \cup {<<0, 65535>>, <<32768, 0>>, <<65535, 65534>>, UINT32_MAX}

(* C18: with simulation_ticks = UINT32_MAX the test of filter_update is    *)
(* false for every value of ticks, UINT32_MAX included: spin1_exit is      *)
(* never called, and every callback does its step, transform and           *)
(* countdown.                                                              *)
C18_SentinelNeverHalts ==
  simulation_ticks = UINT32_MAX =>
    /\ run # "exited"
    /\ exit_tick = 0
    /\ \A t \in TickWords : ~ExitCondition(t, simulation_ticks)
    /\ upc = "idle" => (n_steps = ticks /\ n_updates = ticks)

\* a filter with the sentinel tick count still running after four
\* completed callbacks
C18_Witness ==
  /\ simulation_ticks = UINT32_MAX
  /\ run = "running"
  /\ upc = "idle"
  /\ ticks = 4
  /\ n_steps = 4
  /\ n_updates = 4

\* values of the delay counter across the whole uint range
CounterWords == {<<h, l>> : h \in {0, 1, 32768, 65535}, l \in {0, 1, 2, 65535}}

(* C19: with transmission delay 0 the counter, loaded as 0, is 2^32 - k    *)
(* after k callbacks: the first decrement wraps to 0xffffffff and no       *)
(* packet is sent; the countdown transmits from the counter value 1 only,  *)
(* that is in callback 2^32, and then resets the counter to 0.             *)
C19_ZeroDelayWraps ==
  (ConfiguredDelay = 0 /\ run # "init") =>
    /\ PacketsSent = <<>>
    /\ (upc = "idle" /\ n_updates = 0) => delay_remaining = U32(0)
    /\ (upc = "idle" /\ n_updates >= 1) => delay_remaining = <<65535, 65536 - n_updates>>
    /\ \A w \in CounterWords :
         LET c == DelayCountdown(w)
         IN  /\ c.transmit = (w = U32(1))
             /\ c.transmit => c.remaining = U32(0)
             /\ ~c.transmit => (c.remaining # U32(0) /\ DelayCountdown(c.remaining).transmit = (w = U32(2)))

\* a filter with delay 0 after two callbacks: nothing sent, the counter
\* at 0xfffffffe
C19_Witness ==
  /\ ConfiguredDelay = 0
  /\ upc = "idle"
  /\ n_updates = 2
  /\ delay_remaining = <<65535, 65534>>
  /\ tx = <<>>

====
